---- MODULE Spec2Model ----
(***************************************************************************)
(* Model of src/libcore/str/pattern.rs: the string Pattern API.            *)
(*                                                                         *)
(* A haystack or needle (&str) is the sequence of its UTF-8 bytes; a char  *)
(* is its code point.  A searcher is a record holding the fields of        *)
(* StrSearcher and of CharEqSearcher; the pattern kind says which of the   *)
(* two implementations drives it.                                          *)
(***************************************************************************)
EXTENDS Integers, Sequences, FiniteSets, TLC

\* Bounds of the explored inputs.
MaxHayChars == 3
MaxNeedleChars == 2
MaxSliceLen == 1
\* How many calls that return Done are explored on one searcher.
MaxDone == 2

\* 'a' (1 byte), U+00E9 (2 bytes), U+20AC (3 bytes)
Chars == {97, 233, 8364}

(***************************************************************************)
(* UTF-8: strings as byte sequences.                                       *)
(***************************************************************************)
encode_utf8(c) ==
    IF c < 128 THEN <<c>>
    ELSE IF c < 2048 THEN <<192 + (c \div 64), 128 + (c % 64)>>
    ELSE <<224 + (c \div 4096), 128 + ((c \div 64) % 64), 128 + (c % 64)>>

RECURSIVE as_bytes(_)
as_bytes(cs) ==
    IF cs = <<>> THEN <<>> ELSE encode_utf8(Head(cs)) \o as_bytes(Tail(cs))

\* char::len_utf8
len_utf8(c) == IF c < 128 THEN 1 ELSE IF c < 2048 THEN 2 ELSE IF c < 65536 THEN 3 ELSE 4

utf8_char_width(b) ==
    IF b < 128 THEN 1 ELSE IF b < 224 THEN 2 ELSE IF b < 240 THEN 3 ELSE 4

\* byte offset i of h is the start of a char, or the end of h
is_char_boundary(h, i) ==
    \/ i = Len(h)
    \/ i >= 0 /\ i < Len(h) /\ (h[i + 1] < 128 \/ h[i + 1] >= 192)

\* h[a..b) as a byte sequence (offsets are 0-based)
slice(h, a, b) == SubSeq(h, a + 1, b)

\* the char starting at byte offset i, and the offset after it
char_range_at(h, i) ==
    LET w == utf8_char_width(h[i + 1])
        ch == IF w = 1 THEN h[i + 1]
              ELSE IF w = 2 THEN (h[i + 1] - 192) * 64 + (h[i + 2] - 128)
              ELSE (h[i + 1] - 224) * 4096 + (h[i + 2] - 128) * 64
                   + (h[i + 3] - 128)
    IN  [ch |-> ch, next |-> i + w]

\* start of the char that ends at byte offset i (i > 0): walk back over
\* continuation bytes
RECURSIVE char_start_before(_, _)
char_start_before(h, i) ==
    IF i - 1 > 0 /\ h[i] >= 128 /\ h[i] < 192
    THEN char_start_before(h, i - 1)
    ELSE i - 1

\* the char ending at byte offset i, and the offset where it starts
char_range_at_reverse(h, i) ==
    LET p == char_start_before(h, i)
    IN  [ch |-> char_range_at(h, p).ch, next |-> p]

(***************************************************************************)
(* SearchStep                                                              *)
(***************************************************************************)
Match(a, b) == [tag |-> "Match", a |-> a, b |-> b]
Reject(a, b) == [tag |-> "Reject", a |-> a, b |-> b]
Done == [tag |-> "Done", a |-> 0, b |-> 0]

(***************************************************************************)
(* CharEq: the three classifiers.                                          *)
(***************************************************************************)
NoCharEq == [kind |-> "none", ch |-> 0, set |-> <<>>, pred |-> [c \in Chars |-> FALSE]]
CharPat(c) == [NoCharEq EXCEPT !.kind = "char", !.ch = c]
SlicePat(cs) == [NoCharEq EXCEPT !.kind = "slice", !.set = cs]
PredPat(f) == [NoCharEq EXCEPT !.kind = "pred", !.pred = f]

\* matches comparing a char slice by its first member only
matches_first_member(ce, c) ==
    IF ce.kind = "char" THEN ce.ch = c
    ELSE IF ce.kind = "slice" THEN Len(ce.set) >= 1 /\ ce.set[1] = c
    ELSE ce.pred[c]

matches(ce, c) ==
    IF ce.kind = "char" THEN ce.ch = c
    ELSE IF ce.kind = "slice" THEN \E i \in 1..Len(ce.set) : ce.set[i] = c
    ELSE ce.pred[c]

(***************************************************************************)
(* CharIndices: the double-ended per-character cursor over the haystack.   *)
(* front is the start offset of the next unvisited char from the front,    *)
(* back the end offset of the next unvisited char from the back.           *)
(***************************************************************************)
char_indices(h) == [front |-> 0, back |-> Len(h)]

\* s.iter.iter.size_hint().0 : the number of bytes not yet visited
size_hint(ci) == ci.back - ci.front

CharIndices_next(h, ci) ==
    IF ci.front = ci.back
    THEN [some |-> FALSE, i |-> 0, c |-> 0, ci |-> ci]
    ELSE LET r == char_range_at(h, ci.front)
         IN  [some |-> TRUE, i |-> ci.front, c |-> r.ch,
              ci |-> [ci EXCEPT !.front = r.next]]

CharIndices_next_back(h, ci) ==
    IF ci.front = ci.back
    THEN [some |-> FALSE, i |-> 0, c |-> 0, ci |-> ci]
    ELSE LET r == char_range_at_reverse(h, ci.back)
         IN  [some |-> TRUE, i |-> r.next, c |-> r.ch,
              ci |-> [ci EXCEPT !.back = r.next]]

(***************************************************************************)
(* Searchers.  One record carries the fields of both searcher structs.     *)
(***************************************************************************)
\* impl Pattern for &str :: into_searcher
StrSearcher(needle, h) ==
    [kind |-> "str", haystack |-> h, needle |-> needle,
     start |-> 0, end |-> Len(h), done |-> FALSE,
     char_eq |-> NoCharEq, char_indices |-> char_indices(h)]

\* impl Pattern for CharEqPattern :: into_searcher
CharEqSearcher(ce, h) ==
    [kind |-> ce.kind, haystack |-> h, needle |-> <<>>,
     start |-> 0, end |-> Len(h), done |-> FALSE,
     char_eq |-> ce, char_indices |-> char_indices(h)]

\* the result of a step that indexes out of bounds or unwraps None
Panic == [tag |-> "Panic", a |-> 0, b |-> 0]

CharEqSearcher_next(sr) ==
    LET s == sr.char_indices
        pre_len == size_hint(s)
        n == CharIndices_next(sr.haystack, s)
    IN  IF n.some
        THEN LET len == size_hint(n.ci)
                 char_len == pre_len - len
             IN  [m |-> [sr EXCEPT !.char_indices = n.ci],
                  r |-> IF matches(sr.char_eq, n.c)
                        THEN Match(n.i, n.i + char_len)
                        ELSE Reject(n.i, n.i + char_len)]
        ELSE [m |-> sr, r |-> Done]

\* CharEqSearcher_next_back taking every char for a single byte
CharEqSearcher_next_back_one_byte(sr) ==
    LET s == sr.char_indices
        n == CharIndices_next_back(sr.haystack, s)
    IN  IF n.some
        THEN [m |-> [sr EXCEPT !.char_indices = n.ci],
              r |-> IF matches(sr.char_eq, n.c)
                    THEN Match(n.i, n.i + 1)
                    ELSE Reject(n.i, n.i + 1)]
        ELSE [m |-> sr, r |-> Done]

CharEqSearcher_next_back(sr) ==
    LET s == sr.char_indices
        pre_len == size_hint(s)
        n == CharIndices_next_back(sr.haystack, s)
    IN  IF n.some
        THEN LET len == size_hint(n.ci)
                 char_len == pre_len - len
             IN  [m |-> [sr EXCEPT !.char_indices = n.ci],
                  r |-> IF matches(sr.char_eq, n.c)
                        THEN Match(n.i, n.i + char_len)
                        ELSE Reject(n.i, n.i + char_len)]
        ELSE [m |-> sr, r |-> Done]

\* next_empty_needle_step advancing by one byte instead of one char
next_empty_needle_step_one_byte(m) ==
    LET current_start == m.start
    IN  [m |-> IF ~m.done THEN [m EXCEPT !.start = current_start + 1] ELSE m,
         r |-> Match(current_start, current_start)]

\* Forward step for empty needle
next_empty_needle_step(m) ==
    LET current_start == m.start
    IN  IF ~m.done /\ current_start >= Len(m.haystack)
        THEN [m |-> m, r |-> Panic]
        ELSE [m |-> IF ~m.done
                    THEN [m EXCEPT !.start =
                              char_range_at(m.haystack, current_start).next]
                    ELSE m,
              r |-> Match(current_start, current_start)]

\* next_nonempty_needle_step skipping one byte instead of one char
next_nonempty_needle_step_skip_byte(m) ==
    LET current_start == m.start
        n == Len(m.needle)
    IN  IF slice(m.haystack, m.start, m.start + n) = m.needle
        THEN [m |-> [m EXCEPT !.start = m.start + n],
              r |-> Match(current_start, m.start + n)]
        ELSE [m |-> [m EXCEPT !.start = m.start + 1],
              r |-> Reject(current_start, m.start + 1)]

\* next_nonempty_needle_step moving past one char only after a match
next_nonempty_needle_step_overlap(m) ==
    LET current_start == m.start
        n == Len(m.needle)
        w == len_utf8(char_range_at(m.haystack, m.start).ch)
    IN  IF slice(m.haystack, m.start, m.start + n) = m.needle
        THEN [m |-> [m EXCEPT !.start = m.start + w],
              r |-> Match(current_start, m.start + n)]
        ELSE [m |-> [m EXCEPT !.start = m.start + w],
              r |-> Reject(current_start, m.start + w)]

\* Forward step for nonempty needle
next_nonempty_needle_step(m) ==
    LET current_start == m.start
        n == Len(m.needle)
    IN  IF m.start + n > Len(m.haystack)
        THEN [m |-> m, r |-> Panic]
        ELSE IF slice(m.haystack, m.start, m.start + n) = m.needle
        THEN [m |-> [m EXCEPT !.start = m.start + n],
              r |-> Match(current_start, m.start + n)]
        ELSE \* Skip a char
             IF m.start >= Len(m.haystack)
             THEN [m |-> m, r |-> Panic]
             ELSE LET w == len_utf8(char_range_at(m.haystack, m.start).ch)
                  IN  [m |-> [m EXCEPT !.start = m.start + w],
                       r |-> Reject(current_start, m.start + w)]

\* next_back_empty_needle_step leaving the end cursor where it is
next_back_empty_needle_step_stay(m) ==
    [m |-> m, r |-> Match(m.end, m.end)]

\* next_back_empty_needle_step retreating by one byte instead of one char
next_back_empty_needle_step_one_byte(m) ==
    LET current_end == m.end
    IN  [m |-> IF ~m.done THEN [m EXCEPT !.end = current_end - 1] ELSE m,
         r |-> Match(current_end, current_end)]

\* Backward step for empty needle
next_back_empty_needle_step(m) ==
    LET current_end == m.end
    IN  IF ~m.done /\ (current_end <= 0 \/ current_end > Len(m.haystack))
        THEN [m |-> m, r |-> Panic]
        ELSE [m |-> IF ~m.done
                    THEN [m EXCEPT !.end =
                              char_range_at_reverse(m.haystack, current_end).next]
                    ELSE m,
              r |-> Match(current_end, current_end)]

\* next_back_nonempty_needle_step reporting the match from the old end
next_back_nonempty_needle_step_old_end(m) ==
    LET current_end == m.end
        n == Len(m.needle)
    IN  IF slice(m.haystack, m.end - n, m.end) = m.needle
        THEN [m |-> [m EXCEPT !.end = m.end - n],
              r |-> Match(current_end, current_end)]
        ELSE LET p == m.end
                      - len_utf8(char_range_at_reverse(m.haystack, m.end).ch)
             IN  [m |-> [m EXCEPT !.end = p],
                  r |-> Reject(p, current_end)]

\* Backward step for nonempty needle
next_back_nonempty_needle_step(m) ==
    LET current_end == m.end
        n == Len(m.needle)
    IN  IF m.end - n < 0 \/ m.end > Len(m.haystack)
        THEN [m |-> m, r |-> Panic]
        ELSE IF slice(m.haystack, m.end - n, m.end) = m.needle
        THEN [m |-> [m EXCEPT !.end = m.end - n],
              r |-> Match(m.end - n, current_end)]
        ELSE \* Skip a char
             IF m.end <= 0
             THEN [m |-> m, r |-> Panic]
             ELSE LET p == m.end
                           - len_utf8(char_range_at_reverse(m.haystack, m.end).ch)
                  IN  [m |-> [m EXCEPT !.end = p],
                       r |-> Reject(p, current_end)]

\* The common control flow of a step from the front or from the back; dir
\* names the pair of closures the caller passes
empty_needle_step(dir, m) ==
    IF dir = "next" THEN next_empty_needle_step(m)
    ELSE next_back_empty_needle_step(m)

nonempty_needle_step(dir, m) ==
    IF dir = "next" THEN next_nonempty_needle_step(m)
    ELSE next_back_nonempty_needle_step(m)

\* str_search_step rewinding an exhausted searcher instead of marking it done
str_search_step_restart(m, dir) ==
    IF m.done
    THEN [m |-> m, r |-> Done]
    ELSE IF Len(m.needle) = 0 /\ m.start <= m.end
    THEN empty_needle_step(dir, IF m.start = m.end
                                THEN [m EXCEPT !.done = TRUE] ELSE m)
    ELSE IF m.start + Len(m.needle) <= m.end
    THEN nonempty_needle_step(dir, m)
    ELSE IF m.start < m.end
    THEN [m |-> [m EXCEPT !.done = TRUE], r |-> Reject(m.start, m.end)]
    ELSE [m |-> [m EXCEPT !.start = 0, !.end = Len(m.haystack)], r |-> Done]

\* str_search_step leaving done unset after rejecting the remainder
str_search_step_remainder_not_done(m, dir) ==
    IF m.done
    THEN [m |-> m, r |-> Done]
    ELSE IF Len(m.needle) = 0 /\ m.start <= m.end
    THEN empty_needle_step(dir, IF m.start = m.end
                                THEN [m EXCEPT !.done = TRUE] ELSE m)
    ELSE IF m.start + Len(m.needle) <= m.end
    THEN nonempty_needle_step(dir, m)
    ELSE IF m.start < m.end
    THEN [m |-> m, r |-> Reject(m.start, m.end)]
    ELSE [m |-> [m EXCEPT !.done = TRUE], r |-> Done]

\* str_search_step taking the non-empty needle step on any non-empty window
str_search_step_no_length_guard(m, dir) ==
    IF m.done
    THEN [m |-> m, r |-> Done]
    ELSE IF Len(m.needle) = 0 /\ m.start <= m.end
    THEN empty_needle_step(dir, IF m.start = m.end
                                THEN [m EXCEPT !.done = TRUE] ELSE m)
    ELSE IF m.start < m.end
    THEN nonempty_needle_step(dir, m)
    ELSE [m |-> [m EXCEPT !.done = TRUE], r |-> Done]

str_search_step(m, dir) ==
    IF m.done
    THEN [m |-> m, r |-> Done]
    ELSE IF Len(m.needle) = 0 /\ m.start <= m.end
    THEN empty_needle_step(dir, IF m.start = m.end
                                THEN [m EXCEPT !.done = TRUE] ELSE m)
    ELSE IF m.start + Len(m.needle) <= m.end
    THEN nonempty_needle_step(dir, m)
    ELSE IF m.start < m.end
    THEN [m |-> [m EXCEPT !.done = TRUE], r |-> Reject(m.start, m.end)]
    ELSE [m |-> [m EXCEPT !.done = TRUE], r |-> Done]

StrSearcher_next(m) == str_search_step(m, "next")

StrSearcher_next_back(m) == str_search_step(m, "next_back")

\* Searcher::next / ReverseSearcher::next_back of the searcher of each kind
next(sr) ==
    IF sr.kind = "str" THEN StrSearcher_next(sr) ELSE CharEqSearcher_next(sr)

next_back(sr) ==
    IF sr.kind = "str" THEN StrSearcher_next_back(sr)
    ELSE CharEqSearcher_next_back(sr)

\* next_match giving up at the first Reject
next_match_first_step(sr) ==
    LET st == next(sr)
    IN  IF st.r.tag = "Match" THEN [some |-> TRUE, a |-> st.r.a, b |-> st.r.b]
        ELSE [some |-> FALSE, a |-> 0, b |-> 0]

\* Searcher::next_match: loop on next() until Match or Done
RECURSIVE next_match(_)
next_match(sr) ==
    LET st == next(sr)
    IN  IF st.r.tag = "Match" THEN [some |-> TRUE, a |-> st.r.a, b |-> st.r.b]
        ELSE IF st.r.tag = "Done" \/ st.r.tag = "Panic"
        THEN [some |-> FALSE, a |-> 0, b |-> 0]
        ELSE next_match(st.m)

\* Pattern::is_contained_in
is_contained_in(sr) == next_match(sr).some

\* is_prefix_of accepting a match anywhere in the haystack
is_prefix_of_any_match(sr) == next_match(sr).some

\* Pattern::is_prefix_of: the first forward step is Match(0, _)
is_prefix_of(sr) ==
    LET st == next(sr)
    IN  st.r.tag = "Match" /\ st.r.a = 0

\* Pattern::is_suffix_of: the first backward step is Match(_, haystack.len())
is_suffix_of(sr) ==
    LET st == next_back(sr)
    IN  st.r.tag = "Match" /\ Len(sr.haystack) = st.r.b

(***************************************************************************)
(* Inputs                                                                  *)
(***************************************************************************)
CharSeqs(n) == UNION {[1..k -> Chars] : k \in 0..n}

Haystacks == {as_bytes(cs) : cs \in CharSeqs(MaxHayChars)}
Needles == {as_bytes(cs) : cs \in CharSeqs(MaxNeedleChars)}

StrPat(needle) == [kind |-> "str", needle |-> needle, char_eq |-> NoCharEq]
CharEqPattern(ce) == [kind |-> ce.kind, needle |-> <<>>, char_eq |-> ce]

\* the documented examples: "aaa" in "cbaaaaab", "aa" in "aaa", "" in "ab",
\* "x", "ba" and "az" in "baz"
Examples ==
    { [pattern |-> StrPat(<<97, 97, 97>>),
       haystack |-> <<99, 98, 97, 97, 97, 97, 97, 98>>],
      [pattern |-> StrPat(<<97, 97>>), haystack |-> <<97, 97, 97>>],
      [pattern |-> StrPat(<<>>), haystack |-> <<97, 98>>],
      [pattern |-> StrPat(<<120>>), haystack |-> <<98, 97, 122>>],
      [pattern |-> StrPat(<<98, 97>>), haystack |-> <<98, 97, 122>>],
      [pattern |-> StrPat(<<97, 122>>), haystack |-> <<98, 97, 122>>] }

\* a char slice of two members: &['a', '\u{e9}']
TwoMemberSlice == <<97, 233>>

Patterns ==
    {StrPat(n) : n \in Needles}
    \cup {CharEqPattern(CharPat(c)) : c \in Chars}
    \cup {CharEqPattern(SlicePat(cs)) :
             cs \in CharSeqs(MaxSliceLen) \cup {TwoMemberSlice}}
    \cup {CharEqPattern(PredPat(f)) : f \in [Chars -> BOOLEAN]}

Inputs ==
    {[pattern |-> p, haystack |-> h] : p \in Patterns, h \in Haystacks}
    \cup Examples

\* Pattern::into_searcher
into_searcher(p, h) ==
    IF p.kind = "str" THEN StrSearcher(p.needle, h)
    ELSE CharEqSearcher(p.char_eq, h)

(***************************************************************************)
(* The state machine: one pattern, one haystack, one searcher built from   *)
(* them, the steps it has returned so far, and the answer of a query.      *)
(***************************************************************************)
VARIABLES pattern, haystack, searcher, trace, result

vars == <<pattern, haystack, searcher, trace, result>>

NoResult == [op |-> "none", r |-> FALSE]

DoneCount == Cardinality({i \in 1..Len(trace) : trace[i].tag = "Done"})

Call(dir, r) == [dir |-> dir, tag |-> r.tag, a |-> r.a, b |-> r.b]

Init ==
    /\ \E in \in Inputs :
          /\ pattern = in.pattern
          /\ haystack = in.haystack
          /\ searcher = into_searcher(in.pattern, in.haystack)
    /\ trace = <<>>
    /\ result = NoResult

\* searcher.next()
CallNext ==
    /\ result.op = "none"
    /\ DoneCount < MaxDone
    /\ LET st == next(searcher)
       IN  /\ searcher' = st.m
           /\ trace' = Append(trace, Call("next", st.r))
    /\ UNCHANGED <<pattern, haystack, result>>

\* searcher.next_back()
CallNextBack ==
    /\ result.op = "none"
    /\ DoneCount < MaxDone
    /\ LET st == next_back(searcher)
       IN  /\ searcher' = st.m
           /\ trace' = Append(trace, Call("next_back", st.r))
    /\ UNCHANGED <<pattern, haystack, result>>

\* pattern.is_contained_in(haystack); the pattern is consumed by the call
CallIsContainedIn ==
    /\ result.op = "none"
    /\ trace = <<>>
    /\ result' = [op |-> "is_contained_in",
                  r |-> is_contained_in(into_searcher(pattern, haystack))]
    /\ UNCHANGED <<pattern, haystack, searcher, trace>>

\* pattern.is_prefix_of(haystack)
CallIsPrefixOf ==
    /\ result.op = "none"
    /\ trace = <<>>
    /\ result' = [op |-> "is_prefix_of",
                  r |-> is_prefix_of(into_searcher(pattern, haystack))]
    /\ UNCHANGED <<pattern, haystack, searcher, trace>>

\* pattern.is_suffix_of(haystack)
CallIsSuffixOf ==
    /\ result.op = "none"
    /\ trace = <<>>
    /\ result' = [op |-> "is_suffix_of",
                  r |-> is_suffix_of(into_searcher(pattern, haystack))]
    /\ UNCHANGED <<pattern, haystack, searcher, trace>>

Next ==
    \/ CallNext
    \/ CallNextBack
    \/ CallIsContainedIn
    \/ CallIsPrefixOf
    \/ CallIsSuffixOf

Spec == Init /\ [][Next]_vars

TypeOK ==
    /\ trace \in Seq([dir : {"next", "next_back"},
                      tag : {"Match", "Reject", "Done", "Panic"},
                      a : Nat, b : Nat])
    /\ result.op \in {"none", "is_contained_in", "is_prefix_of", "is_suffix_of"}

(***************************************************************************)
(* Vocabulary of the properties                                            *)
(***************************************************************************)
IsStr == pattern.kind = "str"
IsClassifier == pattern.kind \in {"char", "slice", "pred"}

Step(c) == [tag |-> c.tag, a |-> c.a, b |-> c.b]

OnlyDir(d) == \A i \in 1..Len(trace) : trace[i].dir = d

\* the steps returned before the first Done, as SearchStep values
Stream ==
    LET n == IF DoneCount = 0 THEN Len(trace)
             ELSE (CHOOSE i \in 1..Len(trace) :
                      /\ trace[i].tag = "Done"
                      /\ \A j \in 1..(i - 1) : trace[j].tag # "Done") - 1
    IN  [i \in 1..n |-> Step(trace[i])]

Reverse(sq) == [i \in 1..Len(sq) |-> sq[Len(sq) + 1 - i]]

Boundaries(h) == {i \in 0..Len(h) : is_char_boundary(h, i)}

NumChars(h) == Cardinality({i \in 1..Len(h) : h[i] < 128 \/ h[i] >= 192})

\* the i-th character boundary of h in ascending order, i = 1 for offset 0
NthBoundary(h, i) ==
    CHOOSE p \in Boundaries(h) :
        Cardinality({q \in Boundaries(h) : q < p}) = i - 1

\* the chars of h, decoded at its boundaries
CharsOf(h) == {char_range_at(h, p).ch : p \in Boundaries(h) \ {Len(h)}}

Occurs(needle, h) ==
    \E a \in 0..(Len(h) - Len(needle)) : slice(h, a, a + Len(needle)) = needle

\* the whole forward run of a fresh searcher, up to Done
RECURSIVE RunNext(_)
RunNext(sr) ==
    LET st == next(sr)
    IN  IF st.r.tag \in {"Done", "Panic"} THEN <<>>
        ELSE <<st.r>> \o RunNext(st.m)

(***************************************************************************)
(* C1: a forward run to Done partitions [0, len): the first range starts   *)
(* at 0, each range starts where the previous one ended, the last range    *)
(* ends at len.                                                            *)
(***************************************************************************)
Partition(rs, len) ==
    /\ rs = <<>> => len = 0
    /\ rs # <<>> =>
          /\ rs[1].a = 0
          /\ rs[Len(rs)].b = len
          /\ \A i \in 1..(Len(rs) - 1) : rs[i + 1].a = rs[i].b

C1_ForwardPartition ==
    (OnlyDir("next") /\ DoneCount >= 1) => Partition(Stream, Len(haystack))

(***************************************************************************)
(* C2: a backward run to Done partitions [0, len) from the tail: the first *)
(* range ends at len, each range ends where the previous one started, the  *)
(* last range starts at 0.                                                 *)
(***************************************************************************)
C2_BackwardPartition ==
    (OnlyDir("next_back") /\ DoneCount >= 1) =>
        Partition(Reverse(Stream), Len(haystack))

(***************************************************************************)
(* C3: every offset of every Match and Reject, from either direction and   *)
(* under any sequence of calls, is a character boundary of the haystack.   *)
(***************************************************************************)
C3_Boundaries ==
    \A i \in 1..Len(trace) :
        trace[i].tag \in {"Match", "Reject"} =>
            /\ is_char_boundary(haystack, trace[i].a)
            /\ is_char_boundary(haystack, trace[i].b)

\* a literal search over a haystack with multi-byte chars has rejected a
\* multi-byte char from each end and matched the needle
C3_Witness ==
    /\ IsStr /\ pattern.needle # <<>>
    /\ \E i \in 1..Len(trace) :
          trace[i].dir = "next" /\ trace[i].tag = "Reject"
          /\ trace[i].b - trace[i].a > 1
    /\ \E i \in 1..Len(trace) :
          trace[i].dir = "next_back" /\ trace[i].tag = "Reject"
          /\ trace[i].b - trace[i].a > 1
    /\ \E i \in 1..Len(trace) : trace[i].tag = "Match"

(***************************************************************************)
(* C4: every Match of the literal searcher spans one occurrence of the     *)
(* needle: b - a is the needle's length and haystack[a..b) is the needle.  *)
(***************************************************************************)
C4_MatchIsNeedle ==
    IsStr =>
        \A i \in 1..Len(trace) :
            trace[i].tag = "Match" =>
                /\ 0 <= trace[i].a /\ trace[i].b <= Len(haystack)
                /\ trace[i].b - trace[i].a = Len(pattern.needle)
                /\ slice(haystack, trace[i].a, trace[i].b) = pattern.needle

\* a multi-byte needle has been matched from the front and from the back
C4_Witness ==
    /\ IsStr /\ Len(pattern.needle) > 1
    /\ \E i \in 1..Len(trace) : trace[i].dir = "next" /\ trace[i].tag = "Match"
    /\ \E i \in 1..Len(trace) :
          trace[i].dir = "next_back" /\ trace[i].tag = "Match"

(***************************************************************************)
(* C5: "aaa" in "cbaaaaab", forward: Reject(0,1), Reject(1,2), Match(2,5), *)
(* Reject(5,8), then Done.                                                 *)
(***************************************************************************)
IsExample(needle, h) == IsStr /\ pattern.needle = needle /\ haystack = h

\* every trace of calls in one direction is a prefix of expected, then Done
Yields(dir, expected) ==
    OnlyDir(dir) =>
        \A i \in 1..Len(trace) :
            Step(trace[i]) = IF i <= Len(expected) THEN expected[i] ELSE Done

\* the claim as stated: the tail is rejected in one step, Reject(5,8)
C5_Original ==
    IsExample(<<97, 97, 97>>, <<99, 98, 97, 97, 97, 97, 97, 98>>) =>
        Yields("next", <<Reject(0, 1), Reject(1, 2), Match(2, 5), Reject(5, 8)>>)

\* C5 as amended: the tail "aab" is as long as the needle, so it is compared,
\* one char is rejected, and the rest is rejected as the remainder:
\* Reject(0,1), Reject(1,2), Match(2,5), Reject(5,6), Reject(6,8), then Done.
C5_Amended ==
    IsExample(<<97, 97, 97>>, <<99, 98, 97, 97, 97, 97, 97, 98>>) =>
        Yields("next", <<Reject(0, 1), Reject(1, 2), Match(2, 5),
                         Reject(5, 6), Reject(6, 8)>>)

C5_Witness ==
    /\ IsExample(<<97, 97, 97>>, <<99, 98, 97, 97, 97, 97, 97, 98>>)
    /\ OnlyDir("next") /\ DoneCount >= 1

(***************************************************************************)
(* C6: the empty needle, forward, on a haystack of k chars: k+1 steps      *)
(* Match(p,p), one per character boundary p in ascending order, no Reject, *)
(* then Done; on "ab": Match(0,0), Match(1,1), Match(2,2).                 *)
(***************************************************************************)
C6_EmptyNeedle ==
    (IsStr /\ pattern.needle = <<>> /\ OnlyDir("next")) =>
        /\ \A i \in 1..Len(Stream) :
              /\ i <= NumChars(haystack) + 1
              /\ Stream[i] = Match(NthBoundary(haystack, i),
                                   NthBoundary(haystack, i))
        /\ DoneCount >= 1 => Len(Stream) = NumChars(haystack) + 1
        /\ (haystack = <<97, 98>> /\ DoneCount >= 1) =>
              Stream = <<Match(0, 0), Match(1, 1), Match(2, 2)>>

\* a forward run of the empty needle over multi-byte chars has reached Done
C6_Witness ==
    /\ IsStr /\ pattern.needle = <<>> /\ OnlyDir("next") /\ DoneCount >= 1
    /\ NumChars(haystack) >= 2 /\ Len(haystack) > NumChars(haystack)

(***************************************************************************)
(* C7: "aa" in "aaa": forward Match(0,2), Reject(2,3); backward            *)
(* Match(1,3), Reject(0,1); the backward stream is not the reverse of the  *)
(* forward one.                                                            *)
(***************************************************************************)
C7_Asymmetry ==
    IsExample(<<97, 97>>, <<97, 97, 97>>) =>
        /\ Yields("next", <<Match(0, 2), Reject(2, 3)>>)
        /\ Yields("next_back", <<Match(1, 3), Reject(0, 1)>>)
        /\ (OnlyDir("next_back") /\ DoneCount >= 1) =>
              Reverse(Stream) # RunNext(into_searcher(pattern, haystack))

C7_Witness ==
    /\ IsExample(<<97, 97>>, <<97, 97, 97>>)
    /\ OnlyDir("next_back") /\ DoneCount >= 1

C9_TwoEnded ==
    IsClassifier =>
        LET ci == searcher.char_indices
            Ranges == {i \in 1..Len(trace) : trace[i].tag # "Done"}
            Starts == Boundaries(haystack) \ {Len(haystack)}
        IN  /\ ci.front <= ci.back
            /\ \A i, j \in Ranges :
                  /\ (trace[i].dir = "next" /\ trace[j].dir = "next_back") =>
                        trace[i].b <= trace[j].a
                  /\ i # j =>
                        (trace[i].b <= trace[j].a \/ trace[j].b <= trace[i].a)
            /\ \A i \in Ranges :
                  /\ trace[i].a \in Starts
                  /\ trace[i].b = char_range_at(haystack, trace[i].a).next
            /\ \A p \in Starts :
                  (p < ci.front \/ p >= ci.back) <=>
                      \E i \in Ranges : trace[i].a = p
            /\ DoneCount >= 1 => ci.front = ci.back
            /\ ci.front = ci.back =>
                  /\ next(searcher).r = Done
                  /\ next_back(searcher).r = Done
                  /\ Cardinality(Ranges) = NumChars(haystack)

\* both ends were driven, the cursors met inside the haystack, Done followed
C9_Witness ==
    /\ IsClassifier /\ DoneCount >= 1
    /\ searcher.char_indices.front > 0
    /\ searcher.char_indices.front < Len(haystack)
    /\ \E i, j \in 1..Len(trace) :
          i < j /\ trace[i].dir = "next_back" /\ trace[j].dir = "next"
          /\ trace[j].tag # "Done"

(***************************************************************************)
(* C10: is_contained_in is true exactly when the pattern matches somewhere *)
(* in the haystack: a literal needle iff its bytes occur as a byte window  *)
(* of the haystack (the empty needle always), a classifier iff it matches  *)
(* some char of the haystack; "x" is not contained in "baz".               *)
(***************************************************************************)
C10_Contains ==
    result.op = "is_contained_in" =>
        /\ IsStr => (result.r <=> Occurs(pattern.needle, haystack))
        /\ (IsStr /\ pattern.needle = <<>>) => result.r
        /\ IsClassifier =>
              (result.r <=> \E c \in CharsOf(haystack) : matches(pattern.char_eq, c))
        /\ IsExample(<<120>>, <<98, 97, 122>>) => ~result.r

\* the needle is found after at least one rejected char
C10_Witness ==
    /\ result.op = "is_contained_in" /\ result.r
    /\ IsStr /\ pattern.needle # <<>>
    /\ slice(haystack, 0, Len(pattern.needle)) # pattern.needle

(***************************************************************************)
(* C11: is_prefix_of is true iff the haystack begins with an occurrence of *)
(* the pattern and is_suffix_of iff it ends with one: for a literal needle *)
(* byte-wise starts-with / ends-with (false for a non-empty needle longer  *)
(* than the haystack, true for the empty needle), for a classifier the     *)
(* first / last char is matched.                                           *)
(***************************************************************************)
StartsWith(needle, h) ==
    Len(needle) <= Len(h) /\ \A i \in 1..Len(needle) : h[i] = needle[i]

EndsWith(needle, h) ==
    /\ Len(needle) <= Len(h)
    /\ \A i \in 1..Len(needle) : h[Len(h) - Len(needle) + i] = needle[i]

\* the first and the last char of a non-empty h
FirstChar(h) == char_range_at(h, 0).ch
LastChar(h) ==
    char_range_at(h, CHOOSE p \in Boundaries(h) :
                        p < Len(h) /\ \A q \in Boundaries(h) : q < Len(h) => q <= p).ch

C11_PrefixSuffix ==
    /\ result.op = "is_prefix_of" =>
          /\ IsStr => (result.r <=> StartsWith(pattern.needle, haystack))
          /\ (IsStr /\ pattern.needle = <<>>) => result.r
          /\ (IsStr /\ Len(pattern.needle) > Len(haystack)) => ~result.r
          /\ IsClassifier =>
                (result.r <=> (haystack # <<>>
                               /\ matches(pattern.char_eq, FirstChar(haystack))))
          /\ result.r <=>
                LET st == next(into_searcher(pattern, haystack))
                IN  \E k \in 0..Len(haystack) : st.r = Match(0, k)
    /\ result.op = "is_suffix_of" =>
          /\ IsStr => (result.r <=> EndsWith(pattern.needle, haystack))
          /\ (IsStr /\ pattern.needle = <<>>) => result.r
          /\ (IsStr /\ Len(pattern.needle) > Len(haystack)) => ~result.r
          /\ IsClassifier =>
                (result.r <=> (haystack # <<>>
                               /\ matches(pattern.char_eq, LastChar(haystack))))
          /\ result.r <=>
                LET st == next_back(into_searcher(pattern, haystack))
                IN  \E k \in 0..Len(haystack) : st.r = Match(k, Len(haystack))

\* a multi-byte needle is a suffix but not a prefix of a longer haystack
C11_Witness ==
    /\ result.op = "is_suffix_of" /\ result.r
    /\ IsStr /\ Len(pattern.needle) > 1
    /\ Len(haystack) > Len(pattern.needle)
    /\ ~StartsWith(pattern.needle, haystack)

(***************************************************************************)
(* C12: Done is absorbing: after a call of next() or next_back() returned  *)
(* Done, every later call of either returns Done.                          *)
(***************************************************************************)
C12_DoneAbsorbing ==
    \A i, j \in 1..Len(trace) :
        (i < j /\ trace[i].tag = "Done") => trace[j].tag = "Done"

\* steps from both ends, then Done, then a call from the other end
C12_Witness ==
    /\ DoneCount >= 2
    /\ \E i, j \in 1..Len(trace) :
          /\ trace[i].tag # "Done" /\ trace[j].tag # "Done"
          /\ trace[i].dir = "next" /\ trace[j].dir = "next_back"
    /\ \E i, j \in 1..Len(trace) :
          /\ trace[i].tag = "Done" /\ trace[j].tag = "Done"
          /\ trace[i].dir # trace[j].dir

(***************************************************************************)
(* C13: every searcher terminates: on a haystack of k chars every call     *)
(* from the (k+2)-th on returns Done, and every step of the literal        *)
(* searcher that does not set done, and every Match or Reject of a         *)
(* classifier searcher, strictly shrinks the unsearched window.            *)
(***************************************************************************)
Called == Len(trace') = Len(trace) + 1

C13_Terminates ==
    [][Called =>
          /\ Len(trace') >= NumChars(haystack) + 2 =>
                trace'[Len(trace')].tag = "Done"
          /\ (IsStr /\ ~searcher'.done) =>
                searcher'.end - searcher'.start < searcher.end - searcher.start
          /\ (IsClassifier /\ trace'[Len(trace')].tag # "Done") =>
                size_hint(searcher'.char_indices) < size_hint(searcher.char_indices)
      ]_vars

\* the empty needle, driven from both ends, needed all k+2 calls
C13_Witness ==
    /\ IsStr /\ pattern.needle = <<>> /\ NumChars(haystack) >= 2
    /\ DoneCount = 1 /\ Len(trace) = NumChars(haystack) + 2
    /\ ~OnlyDir("next") /\ ~OnlyDir("next_back")

(***************************************************************************)
(* C14: "aaa" in "cbaaaaab", backward: Reject(7,8), Match(4,7),            *)
(* Reject(1,4), Reject(0,1), then Done.                                    *)
(***************************************************************************)
\* as stated: the head "cba" is rejected as Reject(1,4), Reject(0,1)
C14_Original ==
    IsExample(<<97, 97, 97>>, <<99, 98, 97, 97, 97, 97, 97, 98>>) =>
        Yields("next_back", <<Reject(7, 8), Match(4, 7), Reject(1, 4),
                              Reject(0, 1)>>)

\* C14 as amended: after Match(4,7) the windows [1,4) and [0,3) are compared
\* and one char is rejected each time, then the remainder [0,2) is rejected:
\* Reject(7,8), Match(4,7), Reject(3,4), Reject(2,3), Reject(0,2), then Done.
C14_Amended ==
    IsExample(<<97, 97, 97>>, <<99, 98, 97, 97, 97, 97, 97, 98>>) =>
        Yields("next_back", <<Reject(7, 8), Match(4, 7), Reject(3, 4),
                              Reject(2, 3), Reject(0, 2)>>)

C14_Witness ==
    /\ IsExample(<<97, 97, 97>>, <<99, 98, 97, 97, 97, 97, 97, 98>>)
    /\ OnlyDir("next_back") /\ DoneCount >= 1

(***************************************************************************)
(* C15: literal searcher, non-empty needle, window at least as long as the *)
(* needle, compared byte window differs: next() returns Reject(start, end  *)
(* of the char at start) and moves only start past that char; next_back()  *)
(* returns Reject(start of the char ending at end, end) and moves only end.*)
(***************************************************************************)
\* the nearest char boundary after / before byte offset i
NextBoundary(h, i) ==
    CHOOSE p \in (i + 1)..Len(h) :
        /\ is_char_boundary(h, p)
        /\ \A q \in (i + 1)..(p - 1) : ~is_char_boundary(h, q)

PrevBoundary(h, i) ==
    CHOOSE p \in 0..(i - 1) :
        /\ is_char_boundary(h, p)
        /\ \A q \in (p + 1)..(i - 1) : ~is_char_boundary(h, q)

LastCall == trace[Len(trace)]

C15_RejectOneChar ==
    [][(/\ Called
        /\ IsStr /\ pattern.needle # <<>> /\ ~searcher.done
        /\ searcher.start + Len(pattern.needle) <= searcher.end) =>
          LET m == searcher
              n == Len(pattern.needle)
          IN  /\ (/\ LastCall'.dir = "next"
                  /\ slice(haystack, m.start, m.start + n) # pattern.needle) =>
                    /\ Step(LastCall') =
                          Reject(m.start, NextBoundary(haystack, m.start))
                    /\ searcher' = [m EXCEPT !.start =
                                        NextBoundary(haystack, m.start)]
              /\ (/\ LastCall'.dir = "next_back"
                  /\ slice(haystack, m.end - n, m.end) # pattern.needle) =>
                    /\ Step(LastCall') =
                          Reject(PrevBoundary(haystack, m.end), m.end)
                    /\ searcher' = [m EXCEPT !.end =
                                        PrevBoundary(haystack, m.end)]
      ]_vars

\* a 3-byte char was rejected from the front and a 2-byte char from the back
C15_Witness ==
    /\ IsStr /\ pattern.needle # <<>>
    /\ \E i \in 1..Len(trace) :
          /\ Step(trace[i]) = Reject(trace[i].a, trace[i].a + 3)
          /\ trace[i].dir = "next"
          /\ trace[i].b + Len(pattern.needle) <= Len(haystack)
    /\ \E i \in 1..Len(trace) :
          /\ Step(trace[i]) = Reject(trace[i].a, trace[i].a + 2)
          /\ trace[i].dir = "next_back"

(***************************************************************************)
(* C16: literal searcher, non-empty needle, window non-empty but shorter   *)
(* than the needle: the step, forward or backward, returns                 *)
(* Reject(start, end) and sets done; done is never unset and every step    *)
(* taken with done set returns Done, so the remainder is rejected at most  *)
(* once.                                                                   *)
(***************************************************************************)
C16_RemainderReject ==
    [][(Called /\ IsStr /\ pattern.needle # <<>>) =>
          LET m == searcher
          IN  /\ (/\ ~m.done
                  /\ m.start < m.end
                  /\ m.end - m.start < Len(pattern.needle)) =>
                    /\ Step(LastCall') = Reject(m.start, m.end)
                    /\ searcher' = [m EXCEPT !.done = TRUE]
              /\ m.done =>
                    /\ Step(LastCall') = Done
                    /\ searcher' = m
      ]_vars

\* after steps from both ends a remainder shorter than the needle was
\* rejected in the middle of the haystack, and Done followed
C16_Witness ==
    /\ IsStr /\ pattern.needle # <<>> /\ DoneCount >= 1
    /\ searcher.start > 0 /\ searcher.end < Len(haystack)
    /\ \E i \in 1..Len(trace) :
          Step(trace[i]) = Reject(searcher.start, searcher.end)

(***************************************************************************)
(* C17: a forward run of the literal searcher with a non-empty needle      *)
(* reports exactly the leftmost non-overlapping occurrences: Match(a,b) is *)
(* emitted iff a is the smallest offset, at or after the end of the        *)
(* previous Match (0 if none), where the needle occurs; no Reject covers   *)
(* any byte of such an occurrence.                                         *)
(***************************************************************************)
OccursAt(needle, h, a) ==
    /\ 0 <= a /\ a + Len(needle) <= Len(h)
    /\ slice(h, a, a + Len(needle)) = needle

\* the starts of the leftmost non-overlapping occurrences at or after from
RECURSIVE LeftmostFrom(_, _, _)
LeftmostFrom(needle, h, from) ==
    LET S == {a \in from..Len(h) : OccursAt(needle, h, a)}
    IN  IF S = {} THEN <<>>
        ELSE LET a == CHOOSE x \in S : \A y \in S : x <= y
             IN  <<a>> \o LeftmostFrom(needle, h, a + Len(needle))

\* the ends of the rightmost non-overlapping occurrences at or before upto
RECURSIVE RightmostUpto(_, _, _)
RightmostUpto(needle, h, upto) ==
    LET S == {b \in 0..upto : OccursAt(needle, h, b - Len(needle))}
    IN  IF S = {} THEN <<>>
        ELSE LET b == CHOOSE x \in S : \A y \in S : y <= x
             IN  <<b>> \o RightmostUpto(needle, h, b - Len(needle))

IsMatch(st) == st.tag = "Match"
IsReject(st) == st.tag = "Reject"

C17_LeftmostMatches ==
    (IsStr /\ pattern.needle # <<>> /\ OnlyDir("next")) =>
        LET n == Len(pattern.needle)
            occ == LeftmostFrom(pattern.needle, haystack, 0)
            ms == SelectSeq(Stream, IsMatch)
            rs == SelectSeq(Stream, IsReject)
        IN  /\ Len(ms) <= Len(occ)
            /\ \A i \in 1..Len(ms) : ms[i] = Match(occ[i], occ[i] + n)
            /\ DoneCount >= 1 => Len(ms) = Len(occ)
            /\ \A i \in 1..Len(rs) : \A j \in 1..Len(occ) :
                  rs[i].b <= occ[j] \/ rs[i].a >= occ[j] + n

\* a finished forward run that skipped an overlapping occurrence and found
\* a match after a rejected char
C17_Witness ==
    /\ IsStr /\ pattern.needle # <<>> /\ OnlyDir("next") /\ DoneCount >= 1
    /\ \E i \in 1..Len(Stream) : Stream[i].tag = "Match" /\ Stream[i].a > 0
    /\ \E a \in 0..Len(haystack) :
          /\ OccursAt(pattern.needle, haystack, a)
          /\ \A i \in 1..Len(Stream) : Stream[i] # Match(a, a + Len(pattern.needle))

(***************************************************************************)
(* C18: a backward run of the literal searcher with a non-empty needle     *)
(* reports exactly the rightmost non-overlapping occurrences: Match(a,b)   *)
(* is emitted iff b is the largest offset, at or before the start of the   *)
(* previous Match (len if none), where an occurrence of the needle ends;   *)
(* no Reject covers any byte of such an occurrence.                        *)
(***************************************************************************)
C18_RightmostMatches ==
    (IsStr /\ pattern.needle # <<>> /\ OnlyDir("next_back")) =>
        LET n == Len(pattern.needle)
            occ == RightmostUpto(pattern.needle, haystack, Len(haystack))
            ms == SelectSeq(Stream, IsMatch)
            rs == SelectSeq(Stream, IsReject)
        IN  /\ Len(ms) <= Len(occ)
            /\ \A i \in 1..Len(ms) : ms[i] = Match(occ[i] - n, occ[i])
            /\ DoneCount >= 1 => Len(ms) = Len(occ)
            /\ \A i \in 1..Len(rs) : \A j \in 1..Len(occ) :
                  rs[i].b <= occ[j] - n \/ rs[i].a >= occ[j]

\* a finished backward run that skipped an overlapping occurrence and found
\* a match before a rejected char
C18_Witness ==
    /\ IsStr /\ pattern.needle # <<>> /\ OnlyDir("next_back") /\ DoneCount >= 1
    /\ \E i \in 1..Len(Stream) :
          Stream[i].tag = "Match" /\ Stream[i].b < Len(haystack)
    /\ \E a \in 0..Len(haystack) :
          /\ OccursAt(pattern.needle, haystack, a)
          /\ \A i \in 1..Len(Stream) : Stream[i] # Match(a, a + Len(pattern.needle))

(***************************************************************************)
(* C19: each next()/next_back() of a classifier searcher consumes exactly  *)
(* one char c at bytes [i, i+char_len) and returns Match(i, i+char_len)    *)
(* iff the classifier matches c (equal to the char; a member of the char   *)
(* set, the empty set matching nothing; the predicate holds), Reject       *)
(* otherwise; it returns Done iff no unvisited char remains.               *)
(***************************************************************************)
Classifies(p, c) ==
    CASE p.kind = "char" -> c = p.char_eq.ch
      [] p.kind = "slice" -> c \in {p.char_eq.set[k] : k \in 1..Len(p.char_eq.set)}
      [] p.kind = "pred" -> p.char_eq.pred[c] = TRUE

C19_ClassifierStep ==
    [][(Called /\ IsClassifier) =>
          LET ci == searcher.char_indices
              r == Step(LastCall')
              fwd == LastCall'.dir = "next"
              i == IF fwd THEN ci.front ELSE PrevBoundary(haystack, ci.back)
              j == IF fwd THEN NextBoundary(haystack, ci.front) ELSE ci.back
          IN  /\ r = Done <=> ci.front = ci.back
              /\ ci.front = ci.back => searcher' = searcher
              /\ ci.front < ci.back =>
                    /\ r = IF Classifies(pattern, char_range_at(haystack, i).ch)
                           THEN Match(i, j) ELSE Reject(i, j)
                    /\ searcher'.char_indices =
                          IF fwd THEN [ci EXCEPT !.front = j]
                          ELSE [ci EXCEPT !.back = i]
      ]_vars

\* a two-member char set matched a multi-byte char by its second member
\* from the back and rejected a char from the front; the empty set is
\* reached by its own runs
C19_Witness ==
    /\ pattern.kind = "slice" /\ Len(pattern.char_eq.set) = 2
    /\ pattern.char_eq.set[1] # pattern.char_eq.set[2]
    /\ \E i \in 1..Len(trace) :
          /\ trace[i].dir = "next_back" /\ trace[i].tag = "Match"
          /\ trace[i].b - trace[i].a > 1
          /\ char_range_at(haystack, trace[i].a).ch = pattern.char_eq.set[2]
    /\ \E i \in 1..Len(trace) : trace[i].dir = "next" /\ trace[i].tag = "Reject"

(***************************************************************************)
(* C20: the empty needle on a haystack of k chars, under any interleaving  *)
(* of next() and next_back(): every step before Done is Match(p,p) at a    *)
(* char boundary p, none twice, k+1 in all; next() reports boundaries      *)
(* ascending from 0, next_back() descending from len; the step taken when  *)
(* start = end emits the last Match and sets done moving neither cursor.   *)
(***************************************************************************)
IsNext(c) == c.dir = "next"
IsNextBack(c) == c.dir = "next_back"

EmptyNeedleStream(tr) ==
    LET st == [i \in 1..(Len(tr) - (IF tr # <<>> /\ tr[Len(tr)].tag = "Done"
                                    THEN Cardinality({i \in 1..Len(tr) :
                                                        tr[i].tag = "Done"})
                                    ELSE 0)) |-> tr[i]]
        f == SelectSeq(st, IsNext)
        b == SelectSeq(st, IsNextBack)
        nb == Cardinality(Boundaries(haystack))
    IN  /\ \A i \in 1..Len(st) : st[i].tag = "Match" /\ st[i].a = st[i].b
        /\ \A i \in 1..Len(st) : st[i].a \in Boundaries(haystack)
        /\ \A i, j \in 1..Len(st) : i # j => st[i].a # st[j].a
        /\ \A i \in 1..Len(f) : f[i].a = NthBoundary(haystack, i)
        /\ \A i \in 1..Len(b) : b[i].a = NthBoundary(haystack, nb + 1 - i)
        /\ Len(st) <= NumChars(haystack) + 1
        /\ (tr # <<>> /\ tr[Len(tr)].tag = "Done") =>
              Len(st) = NumChars(haystack) + 1

C20_EmptyNeedleTwoEnded ==
    [][(Called /\ IsStr /\ pattern.needle = <<>>) =>
          /\ EmptyNeedleStream(trace')
          /\ (~searcher.done /\ searcher.start = searcher.end) =>
                /\ Step(LastCall') = Match(searcher.start, searcher.start)
                /\ searcher' = [searcher EXCEPT !.done = TRUE]
          /\ searcher.done => Step(LastCall') = Done
      ]_vars

\* both ends were driven over multi-byte chars, the cursors met strictly
\* inside the haystack, the last Match was emitted there and Done followed
C20_Witness ==
    /\ IsStr /\ pattern.needle = <<>> /\ DoneCount >= 1
    /\ searcher.start = searcher.end
    /\ searcher.start > 0 /\ searcher.start < Len(haystack)
    /\ Len(haystack) > NumChars(haystack)
    /\ \E i \in 1..Len(trace) :
          trace[i].dir = "next_back" /\ trace[i].tag = "Match"

(***************************************************************************)
(* C21: in every reachable state of a literal searcher                     *)
(* 0 <= start <= end <= haystack length and start and end are char         *)
(* boundaries; so the byte window a step compares is in bounds, the        *)
(* one-char decode is never applied to an empty remainder, and no step     *)
(* panics.                                                                 *)
(***************************************************************************)
C21_CursorInvariant ==
    IsStr =>
        LET m == searcher
            n == Len(m.needle)
        IN  /\ 0 <= m.start /\ m.start <= m.end /\ m.end <= Len(haystack)
            /\ is_char_boundary(haystack, m.start)
            /\ is_char_boundary(haystack, m.end)
            \* the window indices of the next non-empty needle step
            /\ (~m.done /\ n > 0 /\ m.start + n <= m.end) =>
                  /\ m.start + n <= Len(haystack)
                  /\ m.end - n >= 0
                  /\ m.start < Len(haystack) /\ m.end > 0
            \* the decode of the next empty needle step
            /\ (~m.done /\ n = 0 /\ m.start < m.end) =>
                  m.start < Len(haystack) /\ m.end > 0
            /\ \A i \in 1..Len(trace) : trace[i].tag # "Panic"
            /\ next(m).r # Panic /\ next_back(m).r # Panic

\* both cursors have moved over multi-byte chars and a window as long as
\* the needle is still unsearched
C21_Witness ==
    /\ IsStr /\ pattern.needle # <<>> /\ ~searcher.done
    /\ searcher.start > 1 /\ searcher.end < Len(haystack) - 1
    /\ searcher.start + Len(pattern.needle) = searcher.end

(***************************************************************************)
(* C22: for a literal searcher with a non-empty needle under any           *)
(* interleaving of next() and next_back(), the emitted ranges are pairwise *)
(* disjoint; those of next() tile [0, start) left to right, those of       *)
(* next_back() tile [end, len) right to left; once Done is reached a       *)
(* leftover [start, end) shorter than the needle was emitted as one Reject *)
(* and the union of all ranges is [0, len); next() never changes end and   *)
(* next_back() never changes start.                                        *)
(***************************************************************************)
Ranges(tr) == SelectSeq(tr, LAMBDA c : c.tag \in {"Match", "Reject"})

\* the Reject of the leftover window, emitted by the call that set done
IsLeftover(c, m) ==
    /\ m.done /\ m.start < m.end
    /\ Step(c) = Reject(m.start, m.end)

FrontRanges(tr, m) ==
    SelectSeq(Ranges(tr), LAMBDA c : IsNext(c) /\ ~IsLeftover(c, m))

BackRanges(tr, m) ==
    SelectSeq(Ranges(tr), LAMBDA c : IsNextBack(c) /\ ~IsLeftover(c, m))

Leftovers(tr, m) == SelectSeq(Ranges(tr), LAMBDA c : IsLeftover(c, m))

Covered(tr) == UNION {tr[i].a..(tr[i].b - 1) : i \in 1..Len(tr)}

TwoEndedTiling(tr, m, len) ==
    LET rs == Ranges(tr)
        F  == FrontRanges(tr, m)
        B  == BackRanges(tr, m)
        L  == Leftovers(tr, m)
    IN  /\ \A i \in 1..Len(rs) : rs[i].a < rs[i].b
        /\ \A i, j \in 1..Len(rs) :
              i < j => (rs[i].b <= rs[j].a \/ rs[j].b <= rs[i].a)
        /\ IF F = <<>> THEN m.start = 0
           ELSE /\ F[1].a = 0
                /\ F[Len(F)].b = m.start
                /\ \A i \in 1..(Len(F) - 1) : F[i + 1].a = F[i].b
        /\ IF B = <<>> THEN m.end = len
           ELSE /\ B[1].b = len
                /\ B[Len(B)].a = m.end
                /\ \A i \in 1..(Len(B) - 1) : B[i + 1].b = B[i].a
        /\ m.start <= m.end
        /\ Covered(rs) \subseteq 0..(len - 1)
        /\ (\E i \in 1..Len(tr) : tr[i].tag = "Done") =>
              /\ m.done
              /\ Covered(rs) = 0..(len - 1)
              /\ IF m.start < m.end
                 THEN /\ Len(L) = 1
                      /\ m.end - m.start < Len(m.needle)
                 ELSE L = <<>>

C22_TwoEndedTiling ==
    [][(Called /\ IsStr /\ pattern.needle # <<>>) =>
          /\ TwoEndedTiling(trace', searcher', Len(haystack))
          /\ IsNext(LastCall') => searcher'.end = searcher.end
          /\ IsNextBack(LastCall') => searcher'.start = searcher.start
      ]_vars

\* calls from both ends found a Match each, met at a leftover shorter than
\* the needle, and Done followed
C22_Witness ==
    /\ IsStr /\ pattern.needle # <<>> /\ DoneCount >= 1
    /\ searcher.start < searcher.end
    /\ \E i, j \in 1..Len(trace) :
          /\ IsNext(trace[i]) /\ IsMatch(trace[i])
          /\ IsNextBack(trace[j]) /\ IsMatch(trace[j])
    /\ Len(Leftovers(trace, searcher)) = 1

====
